---- MODULE Spec2Model ----
(***************************************************************************)
(* Way graph of Datastructures (src/prg2/datastructures.hh): the Way Index *)
(* (ways_by_id_, ways_by_coord_), the crossroad state table                *)
(* (visited_coordinates_) and the two depth-first searches (search_any,    *)
(* search_cycle) behind route_any and route_with_cycle.                    *)
(*                                                                         *)
(* Every call of the interface is one step.  The recursion of a search is   *)
(* the explicit sequence "stack" of frames; search_any and search_cycle    *)
(* are step functions on it (entry, loop test, after the recursive call),  *)
(* and a query runs them until the outermost call has returned.            *)
(***************************************************************************)
EXTENDS Integers, Sequences, FiniteSets, TLC

\* ---------------------------------------------------------------- constants
\* std::numeric_limits<int>::min()
NO_VALUE == (-2147483647) - 1
NO_WAY == "!!No way!!"
NO_DISTANCE == NO_VALUE
NO_COORD == <<NO_VALUE, NO_VALUE>>
\* The two modes of clean_for_search; only their being different matters.
NORMAL == "NORMAL"
CYCLE == "CYCLE"

\* ------------------------------------------------------------------- bounds
\* Number of calls of the public interface in one run.
MaxCalls == 4
\* Number of way ids the callers use (the first names of WayIdNames).
NumWayIds == 3
\* Number of calls in one run of SpecSteps, where a search runs frame by frame.
MaxStepCalls == 3
\* Number of calls in one run of SpecWayLength, where the ways have
\* intermediate points.
MaxLengthCalls == 3

\* ------------------------------------------------------------------- inputs
\* Coordinates the callers use (the spec's example: distances 3, 4 and 5).
Coords == {<<0, 0>>, <<0, 3>>, <<4, 3>>}
WayIdNames == <<"W1", "W2", "W3", "W4", "W5">>
\* Polylines passed to add_way: the three sides of the triangle, one side in
\* the opposite direction, two self-loops, and one polyline with an
\* intermediate point (a second, longer way between two corners).
Polylines ==
    {<<<<0, 0>>, <<0, 3>>>>, <<<<0, 3>>, <<0, 0>>>>, <<<<0, 3>>, <<4, 3>>>>,
     <<<<4, 3>>, <<0, 0>>>>, <<<<0, 0>>, <<0, 0>>>>, <<<<4, 3>>, <<4, 3>>>>,
     <<<<0, 0>>, <<4, 3>>, <<0, 3>>>>}

\* Intermediate points of the ways of SpecWayLength: the sections to and from
\* (2,2) have lengths that are not integers (the square roots of 8 and 5).
MidPoints == {<<2, 2>>}
\* The polylines of SpecWayLength: straight, or through one intermediate point.
LengthPolylines ==
    {<<a, b>> : a \in Coords, b \in Coords}
        \cup {<<a, m, b>> : a \in Coords, m \in MidPoints, b \in Coords}

\* ------------------------------------------------------------------ helpers
\* Mutant: the sequence is left in the order it was built in
ReverseNothing(s) == s

Reverse(s) == [i \in 1..Len(s) |-> s[Len(s) + 1 - i]]

InsertAt(s, p, e) == SubSeq(s, 1, p - 1) \o <<e>> \o SubSeq(s, p, Len(s))

\* floor(sqrt(n)) for a natural number n
FloorSqrt(n) == CHOOSE r \in 0..n : r * r <= n /\ (r + 1) * (r + 1) > n

\* Mutant: the length of a section is rounded up
RECURSIVE SectionSumCeil(_, _)
SectionSumCeil(coordinates, i) ==
    IF i >= Len(coordinates) THEN 0
    ELSE LET n == (coordinates[i][1] - coordinates[i + 1][1])
                    * (coordinates[i][1] - coordinates[i + 1][1])
                  + (coordinates[i][2] - coordinates[i + 1][2])
                    * (coordinates[i][2] - coordinates[i + 1][2])
         IN  (CHOOSE r \in 0..n : r * r >= n /\ (r = 0 \/ (r - 1) * (r - 1) < n))
               + SectionSumCeil(coordinates, i + 1)

\* struct Way: the constructor derives the ends and sums the floored lengths
\* of the sections.
RECURSIVE SectionSum(_, _)
SectionSum(coordinates, i) ==
    IF i >= Len(coordinates) THEN 0
    ELSE FloorSqrt((coordinates[i][1] - coordinates[i + 1][1])
                     * (coordinates[i][1] - coordinates[i + 1][1])
                   + (coordinates[i][2] - coordinates[i + 1][2])
                     * (coordinates[i][2] - coordinates[i + 1][2]))
         + SectionSum(coordinates, i + 1)

\* Mutant: the coordinates are stored last to first
WayStoredReversed(id, coordinates) ==
    [id |-> id, coordinates |-> Reverse(coordinates),
     end1 |-> coordinates[1], end2 |-> coordinates[Len(coordinates)],
     length |-> SectionSum(coordinates, 1)]

Way(id, coordinates) ==
    [id |-> id, coordinates |-> coordinates,
     end1 |-> coordinates[1], end2 |-> coordinates[Len(coordinates)],
     length |-> SectionSum(coordinates, 1)]

\* struct Crossroad_data as constructed.  The struct declares the integer as
\* minimum_distance; the searches and clean_for_search name it distance.
Crossroad_data(coordinates) ==
    [coordinates |-> coordinates, visited |-> FALSE, distance |-> NO_DISTANCE]

VARIABLES
    ways_by_id_,           \* unordered_map: present id -> Way
    ways_by_coord_,        \* unordered_multimap: coordinate -> the Ways stored
                           \* under it, in the container's iteration order
    visited_coordinates_,  \* unordered_map: tracked coordinate -> Crossroad_data
    chosen_route_,         \* result buffer of route_any
    cyclic_route_,         \* result buffer of route_with_cycle
    route_found_,          \* flag that short-circuits the unwinding
    stack,                 \* active frames of search_any / search_cycle
    pc,                    \* "idle", "running" while a search of SpecSteps is in
                           \* progress, "terminated" after an uncaught exception
    call,                  \* the interface call in progress or last finished
    ret,                   \* the value the last finished call returned
    ncalls                 \* interface calls made so far

vars == <<ways_by_id_, ways_by_coord_, visited_coordinates_, chosen_route_,
          cyclic_route_, route_found_, stack, pc, call, ret, ncalls>>

structure == <<ways_by_id_, ways_by_coord_, visited_coordinates_>>
scratch == <<chosen_route_, cyclic_route_, route_found_>>

nullptr == [null |-> TRUE]

\* What a call returns: the bool of add_way and remove_way, the vector of
\* route_any and route_with_cycle, or nothing (a void call, no call yet, a
\* call that has not returned).
BoolResult(b) == [bool |-> b]

RouteResult(route) == [route |-> route]

NoResult(why) == [none |-> why]

\* ------------------------------------------------------------ Way Index
\* Mutant: the lookup never finds the way
GetWayInNever(by_id, id) == nullptr

\* Datastructures::get_way over a given by-id view
GetWayIn(by_id, id) == IF id \in DOMAIN by_id THEN by_id[id] ELSE nullptr

get_way(id) == GetWayIn(ways_by_id_, id)

\* Mutant: the second end is returned whichever end the coordinate is
WaysFromInEnd2(by_coord, xy) ==
    [i \in 1..Len(by_coord[xy]) |->
        <<by_coord[xy][i].id, by_coord[xy][i].end2>>]

\* ways_from over a given by-coordinate view
WaysFromIn(by_coord, xy) ==
    [i \in 1..Len(by_coord[xy]) |->
        IF xy = by_coord[xy][i].end1
        THEN <<by_coord[xy][i].id, by_coord[xy][i].end2>>
        ELSE <<by_coord[xy][i].id, by_coord[xy][i].end1>>]

ways_from(xy) == WaysFromIn(ways_by_coord_, xy)

get_way_coords(id) ==
    IF get_way(id) = nullptr THEN <<NO_COORD>> ELSE get_way(id).coordinates

all_ways == DOMAIN ways_by_id_

\* std::unordered_map::insert: the value is stored unless the key is present
MapInsert(m, k, v) ==
    [x \in DOMAIN m \cup {k} |-> IF x \in DOMAIN m THEN m[x] ELSE v]

\* Mutant: the entry stays
MapEraseNothing(m, k) == m

\* std::unordered_map::erase by key
MapErase(m, k) == [x \in DOMAIN m \ {k} |-> m[x]]

\* ---------------------------------------------------------------- add_way
\* The multimap places the new entry somewhere among the entries of its key.
add_way(id, coords) ==
    /\ pc = "idle"
    /\ ncalls < MaxCalls
    /\ IF get_way(id) # nullptr
       THEN /\ ret' = BoolResult(FALSE)
            /\ UNCHANGED structure
       ELSE LET added_way == Way(id, coords)
                end1 == coords[1]
                end2 == coords[Len(coords)]
                cr1 == IF end1 \notin DOMAIN visited_coordinates_
                       THEN MapInsert(visited_coordinates_, end1, Crossroad_data(end1))
                       ELSE visited_coordinates_
                cr2 == IF end2 \notin DOMAIN cr1
                       THEN MapInsert(cr1, end2, Crossroad_data(end2))
                       ELSE cr1
            IN  \E p1 \in 1..(Len(ways_by_coord_[end1]) + 1) :
                  LET by1 == [ways_by_coord_ EXCEPT ![end1] = InsertAt(@, p1, added_way)]
                  IN  \E p2 \in 1..(Len(by1[end2]) + 1) :
                        /\ ways_by_id_' = MapInsert(ways_by_id_, id, added_way)
                        /\ ways_by_coord_' = [by1 EXCEPT ![end2] = InsertAt(@, p2, added_way)]
                        /\ visited_coordinates_' = cr2
                        /\ ret' = BoolResult(TRUE)
    /\ call' = [op |-> "add_way", id |-> id, coords |-> coords]
    /\ ncalls' = ncalls + 1
    /\ UNCHANGED <<scratch, stack, pc>>

\* ------------------------------------------------------------- remove_way
\* Mutant: the loop erases the first entry of the range without comparing ids.
EraseFirstAny(entries, id) == IF entries = <<>> THEN <<>> ELSE Tail(entries)

\* The loop of remove_way: erase the first entry carrying the id, then break.
RECURSIVE EraseFirst(_, _)
EraseFirst(entries, id) ==
    IF entries = <<>> THEN <<>>
    ELSE IF Head(entries).id = id THEN Tail(entries)
    ELSE <<Head(entries)>> \o EraseFirst(Tail(entries), id)

\* Mutant: the crossroad of an end goes with the way, whatever else is there.
PruneCrossroadAlways(crossroads, by_coord, coord) == MapErase(crossroads, coord)

\* Mutant: the crossroad is never erased
PruneCrossroadNever(crossroads, by_coord, coord) == crossroads

\* The test after each loop: the crossroad goes when ways_from finds no way.
PruneCrossroad(crossroads, by_coord, coord) ==
    IF Len(WaysFromIn(by_coord, coord)) = 0
    THEN MapErase(crossroads, coord)
    ELSE crossroads

\* The erasing part of remove_way (lines 911-945), as a function of the three
\* containers it is run on: what they hold when it returns true.
remove_way_erase(by_id, by_coord, crossroads, id) ==
    LET searched_way == GetWayIn(by_id, id)
        wanted_coord1 == searched_way.end1
        wanted_coord2 == searched_way.end2
        by1 == [by_coord EXCEPT ![wanted_coord1] = EraseFirst(@, id)]
        cr1 == PruneCrossroad(crossroads, by1, wanted_coord1)
        by2 == [by1 EXCEPT ![wanted_coord2] = EraseFirst(@, id)]
        cr2 == PruneCrossroad(cr1, by2, wanted_coord2)
    IN  [ways_by_id_ |-> MapErase(by_id, id),
         ways_by_coord_ |-> by2,
         visited_coordinates_ |-> cr2]

remove_way(id) ==
    /\ pc = "idle"
    /\ ncalls < MaxCalls
    /\ IF get_way(id) = nullptr
       THEN /\ ret' = BoolResult(FALSE)
            /\ UNCHANGED structure
       ELSE LET erased == remove_way_erase(ways_by_id_, ways_by_coord_,
                                           visited_coordinates_, id)
            IN  /\ ways_by_coord_' = erased.ways_by_coord_
                /\ visited_coordinates_' = erased.visited_coordinates_
                /\ ways_by_id_' = erased.ways_by_id_
                /\ ret' = BoolResult(TRUE)
    /\ call' = [op |-> "remove_way", id |-> id]
    /\ ncalls' = ncalls + 1
    /\ UNCHANGED <<scratch, stack, pc>>

\* ------------------------------------------------------------- clear_ways
\* Mutant: the by-coordinate view is not cleared
clear_ways_keep_by_coord ==
    /\ pc = "idle"
    /\ ncalls < MaxCalls
    /\ ways_by_id_' = [id \in {} |-> nullptr]
    /\ visited_coordinates_' = [c \in {} |-> nullptr]
    /\ chosen_route_' = <<>>
    /\ cyclic_route_' = <<>>
    /\ call' = [op |-> "clear_ways"]
    /\ ret' = NoResult("void")
    /\ ncalls' = ncalls + 1
    /\ UNCHANGED <<ways_by_coord_, route_found_, stack, pc>>

clear_ways ==
    /\ pc = "idle"
    /\ ncalls < MaxCalls
    /\ ways_by_id_' = [id \in {} |-> nullptr]
    /\ ways_by_coord_' = [c \in Coords |-> <<>>]
    /\ visited_coordinates_' = [c \in {} |-> nullptr]
    /\ chosen_route_' = <<>>
    /\ cyclic_route_' = <<>>
    /\ call' = [op |-> "clear_ways"]
    /\ ret' = NoResult("void")
    /\ ncalls' = ncalls + 1
    /\ UNCHANGED <<route_found_, stack, pc>>

\* ----------------------------------------------------------- search state
\* What a search reads and writes, as one record: the crossroad table, the
\* flag, the two result buffers, the active frames (the innermost last) and
\* whether unordered_map::at has thrown std::out_of_range.
SearchState ==
    [visited_coordinates_ |-> visited_coordinates_,
     route_found_ |-> route_found_,
     chosen_route_ |-> chosen_route_,
     cyclic_route_ |-> cyclic_route_,
     stack |-> stack,
     thrown |-> FALSE]

TopOf(st) == st.stack[Len(st.stack)]

Pop(frames) == SubSeq(frames, 1, Len(frames) - 1)

SetTop(frames, f) == [frames EXCEPT ![Len(frames)] = f]

\* A frame of search_any or search_cycle at its first statement.  "arg" is
\* the goal of search_any and the previous coordinate of search_cycle.
Frame(fn, current, arg, route_length) ==
    [fn |-> fn, current |-> current, arg |-> arg, route_length |-> route_length,
     current_ways |-> <<>>, it |-> 1, at |-> "enter"]

\* ------------------------------------------------------- clean_for_search
\* Mutant: the distances are reset, the visited flags are not
CleanedCrossroadsKeepVisited(crossroads) ==
    [c \in DOMAIN crossroads |-> [crossroads[c] EXCEPT !.distance = NO_VALUE]]

\* Mutant: the table is emptied instead of being reset entry by entry
CleanedCrossroadsErased(crossroads) == [c \in {} |-> nullptr]

CleanedCrossroads(crossroads) ==
    [c \in DOMAIN crossroads |->
        [crossroads[c] EXCEPT !.distance = NO_VALUE, !.visited = FALSE]]

\* Mutant: the buffer of the other mode is cleared
clean_for_search_swapped(st, type) ==
    [st EXCEPT
        !.route_found_ = FALSE,
        !.visited_coordinates_ = CleanedCrossroads(@),
        !.chosen_route_ = IF type = NORMAL THEN @ ELSE <<>>,
        !.cyclic_route_ = IF type = NORMAL THEN <<>> ELSE @]

\* Mutant: the found flag is not reset
clean_for_search_keep_flag(st, type) ==
    [st EXCEPT
        !.visited_coordinates_ = CleanedCrossroads(@),
        !.chosen_route_ = IF type = NORMAL THEN <<>> ELSE @,
        !.cyclic_route_ = IF type = NORMAL THEN @ ELSE <<>>]

clean_for_search(st, type) ==
    [st EXCEPT
        !.route_found_ = FALSE,
        !.visited_coordinates_ = CleanedCrossroads(@),
        !.chosen_route_ = IF type = NORMAL THEN <<>> ELSE @,
        !.cyclic_route_ = IF type = NORMAL THEN @ ELSE <<>>]

\* ------------------------------------------------------------- search_any
\* Mutant: the frame is marked visited but its distance is not recorded
search_any_enter_no_distance(st) ==
    LET top == TopOf(st)
    IN  IF top.current \notin DOMAIN st.visited_coordinates_
        THEN [st EXCEPT !.thrown = TRUE]
        ELSE LET marked == [st.visited_coordinates_ EXCEPT ![top.current] =
                               [@ EXCEPT !.visited = TRUE]]
             IN  IF top.current = top.arg
                 THEN [st EXCEPT
                         !.visited_coordinates_ = marked,
                         !.route_found_ = TRUE,
                         !.chosen_route_ = Append(@,
                             <<top.arg, NO_WAY, marked[top.current].distance>>),
                         !.stack = Pop(@)]
                 ELSE [st EXCEPT
                         !.visited_coordinates_ = marked,
                         !.stack = SetTop(@, [top EXCEPT
                             !.current_ways = ways_from(top.current),
                             !.it = 1, !.at = "loop"])]

\* Entry of a frame up to the loop: record distance and visited, stop at the
\* goal.
search_any_enter(st) ==
    LET top == TopOf(st)
    IN  IF top.current \notin DOMAIN st.visited_coordinates_
        THEN [st EXCEPT !.thrown = TRUE]
        ELSE LET marked == [st.visited_coordinates_ EXCEPT ![top.current] =
                               [@ EXCEPT !.distance = top.route_length,
                                         !.visited = TRUE]]
             IN  IF top.current = top.arg
                 THEN [st EXCEPT
                         !.visited_coordinates_ = marked,
                         !.route_found_ = TRUE,
                         !.chosen_route_ = Append(@,
                             <<top.arg, NO_WAY, marked[top.current].distance>>),
                         !.stack = Pop(@)]
                 ELSE [st EXCEPT
                         !.visited_coordinates_ = marked,
                         !.stack = SetTop(@, [top EXCEPT
                             !.current_ways = ways_from(top.current),
                             !.it = 1, !.at = "loop"])]

\* Mutant: the length of the way is passed without the length so far
NextLengthWayOnly(route_length, way) == ways_by_id_[way].length

\* The route length passed to the recursive call
NextLength(route_length, way) == route_length + ways_by_id_[way].length

\* Mutant: a visited neighbour is not stepped over, the loop tests it again
search_any_loop_stuck(st) ==
    LET top == TopOf(st)
    IN  IF top.it > Len(top.current_ways)
        THEN [st EXCEPT !.stack = Pop(@)]
        ELSE LET way == top.current_ways[top.it][1]
                 next == top.current_ways[top.it][2]
             IN  IF next \notin DOMAIN st.visited_coordinates_
                 THEN [st EXCEPT !.thrown = TRUE]
                 ELSE IF st.visited_coordinates_[next].visited = TRUE
                 THEN st
                 ELSE IF way \notin DOMAIN ways_by_id_
                 THEN [st EXCEPT !.thrown = TRUE]
                 ELSE [st EXCEPT !.stack =
                         Append(SetTop(@, [top EXCEPT !.at = "after"]),
                                Frame("search_any", next, top.arg,
                                      NextLength(top.route_length, way)))]

\* Mutant: a visited neighbour is searched again
search_any_loop_revisit(st) ==
    LET top == TopOf(st)
    IN  IF top.it > Len(top.current_ways)
        THEN [st EXCEPT !.stack = Pop(@)]
        ELSE LET way == top.current_ways[top.it][1]
                 next == top.current_ways[top.it][2]
             IN  IF way \notin DOMAIN ways_by_id_
                 THEN [st EXCEPT !.thrown = TRUE]
                 ELSE [st EXCEPT !.stack =
                         Append(SetTop(@, [top EXCEPT !.at = "after"]),
                                Frame("search_any", next, top.arg,
                                      NextLength(top.route_length, way)))]

\* One test of the loop: leave it at the end, skip a visited neighbour, or
\* call search_any on the neighbour.
search_any_loop(st) ==
    LET top == TopOf(st)
    IN  IF top.it > Len(top.current_ways)
        THEN [st EXCEPT !.stack = Pop(@)]
        ELSE LET way == top.current_ways[top.it][1]
                 next == top.current_ways[top.it][2]
             IN  IF next \notin DOMAIN st.visited_coordinates_
                 THEN [st EXCEPT !.thrown = TRUE]
                 ELSE IF st.visited_coordinates_[next].visited = TRUE
                 THEN [st EXCEPT !.stack = SetTop(@, [top EXCEPT !.it = @ + 1])]
                 ELSE IF way \notin DOMAIN ways_by_id_
                 THEN [st EXCEPT !.thrown = TRUE]
                 ELSE [st EXCEPT !.stack =
                         Append(SetTop(@, [top EXCEPT !.at = "after"]),
                                Frame("search_any", next, top.arg,
                                      NextLength(top.route_length, way)))]

\* Mutant: the found flag is not tested, the loop goes on
search_any_after_goes_on(st) ==
    LET top == TopOf(st)
    IN  [st EXCEPT !.stack = SetTop(@, [top EXCEPT !.it = @ + 1, !.at = "loop"])]

\* After the recursive call: once the route is found record this frame and
\* return, else go on with the next neighbour.
search_any_after(st) ==
    LET top == TopOf(st)
    IN  IF st.route_found_
        THEN IF top.current \notin DOMAIN st.visited_coordinates_
             THEN [st EXCEPT !.thrown = TRUE]
             ELSE [st EXCEPT
                     !.chosen_route_ = Append(@,
                         <<top.current, top.current_ways[top.it][1],
                           st.visited_coordinates_[top.current].distance>>),
                     !.stack = Pop(@)]
        ELSE [st EXCEPT !.stack = SetTop(@, [top EXCEPT !.it = @ + 1, !.at = "loop"])]

\* ----------------------------------------------------------- search_cycle
\* Entry of a frame: a visited coordinate closes a cycle, else mark it.
search_cycle_enter(st) ==
    LET top == TopOf(st)
    IN  IF top.current \notin DOMAIN st.visited_coordinates_
        THEN [st EXCEPT !.thrown = TRUE]
        ELSE IF st.visited_coordinates_[top.current].visited = TRUE
        THEN [st EXCEPT
                !.route_found_ = TRUE,
                !.cyclic_route_ = Append(@, <<top.current, NO_WAY>>),
                !.stack = Pop(@)]
        ELSE [st EXCEPT
                !.visited_coordinates_ = [@ EXCEPT ![top.current].visited = TRUE],
                !.stack = SetTop(@, [top EXCEPT
                    !.current_ways = ways_from(top.current),
                    !.it = 1, !.at = "loop"])]

\* Mutant: the neighbour is not compared with the previous coordinate
search_cycle_loop_no_skip(st) ==
    LET top == TopOf(st)
    IN  IF top.it > Len(top.current_ways)
        THEN [st EXCEPT !.stack = Pop(@)]
        ELSE [st EXCEPT !.stack =
                Append(SetTop(@, [top EXCEPT !.at = "after"]),
                       Frame("search_cycle", top.current_ways[top.it][2],
                             top.current, 0))]

\* Mutant: a neighbour equal to the current coordinate is skipped as well
search_cycle_loop_skip_self(st) ==
    LET top == TopOf(st)
    IN  IF top.it > Len(top.current_ways)
        THEN [st EXCEPT !.stack = Pop(@)]
        ELSE IF \/ top.current_ways[top.it][2] = top.arg
                \/ top.current_ways[top.it][2] = top.current
        THEN [st EXCEPT !.stack = SetTop(@, [top EXCEPT !.it = @ + 1])]
        ELSE [st EXCEPT !.stack =
                Append(SetTop(@, [top EXCEPT !.at = "after"]),
                       Frame("search_cycle", top.current_ways[top.it][2],
                             top.current, 0))]

\* One test of the loop: leave it at the end, skip a neighbour equal to the
\* previous coordinate, or call search_cycle on the neighbour.
search_cycle_loop(st) ==
    LET top == TopOf(st)
    IN  IF top.it > Len(top.current_ways)
        THEN [st EXCEPT !.stack = Pop(@)]
        ELSE IF top.current_ways[top.it][2] = top.arg
        THEN [st EXCEPT !.stack = SetTop(@, [top EXCEPT !.it = @ + 1])]
        ELSE [st EXCEPT !.stack =
                Append(SetTop(@, [top EXCEPT !.at = "after"]),
                       Frame("search_cycle", top.current_ways[top.it][2],
                             top.current, 0))]

\* Mutant: the way of the first neighbour is recorded, not the way explored
search_cycle_after_first_way(st) ==
    LET top == TopOf(st)
    IN  IF st.route_found_
        THEN [st EXCEPT
                !.cyclic_route_ = Append(@, <<top.current, top.current_ways[1][1]>>),
                !.stack = Pop(@)]
        ELSE [st EXCEPT !.stack = SetTop(@, [top EXCEPT !.it = @ + 1, !.at = "loop"])]

search_cycle_after(st) ==
    LET top == TopOf(st)
    IN  IF st.route_found_
        THEN [st EXCEPT
                !.cyclic_route_ = Append(@, <<top.current, top.current_ways[top.it][1]>>),
                !.stack = Pop(@)]
        ELSE [st EXCEPT !.stack = SetTop(@, [top EXCEPT !.it = @ + 1, !.at = "loop"])]

\* ------------------------------------------------------------ running
\* The next step of the innermost frame.
SearchStep(st) ==
    LET top == TopOf(st)
    IN  IF top.fn = "search_any"
        THEN CASE top.at = "enter" -> search_any_enter(st)
               [] top.at = "loop" -> search_any_loop(st)
               [] top.at = "after" -> search_any_after(st)
        ELSE CASE top.at = "enter" -> search_cycle_enter(st)
               [] top.at = "loop" -> search_cycle_loop(st)
               [] top.at = "after" -> search_cycle_after(st)

\* The outermost call run until it returns or throws.
RECURSIVE RunSearch(_)
RunSearch(st) ==
    IF st.stack = <<>> \/ st.thrown THEN st ELSE RunSearch(SearchStep(st))

\* The state after a whole query.  An uncaught std::out_of_range ends the
\* program where it was thrown: what the search wrote so far stays written.
Finish(st, result) ==
    /\ pc' = IF st.thrown THEN "terminated" ELSE "idle"
    /\ ret' = IF st.thrown THEN NoResult("none") ELSE RouteResult(result)
    /\ visited_coordinates_' = st.visited_coordinates_
    /\ route_found_' = st.route_found_
    /\ stack' = st.stack

\* -------------------------------------------------------------- route_any
\* Mutant: clean_for_search is called before the test of the precondition
route_any_clean_first(fromxy, toxy) ==
    /\ pc = "idle"
    /\ ncalls < MaxCalls
    /\ call' = [op |-> "route_any", fromxy |-> fromxy, toxy |-> toxy]
    /\ ncalls' = ncalls + 1
    /\ UNCHANGED <<ways_by_id_, ways_by_coord_>>
    /\ LET cleaned == clean_for_search(SearchState, NORMAL)
       IN  IF Len(ways_from(toxy)) = 0 \/ Len(ways_from(fromxy)) = 0
           THEN /\ ret' = RouteResult(<<<<NO_COORD, NO_WAY, NO_DISTANCE>>>>)
                /\ visited_coordinates_' = cleaned.visited_coordinates_
                /\ route_found_' = cleaned.route_found_
                /\ chosen_route_' = cleaned.chosen_route_
                /\ cyclic_route_' = cleaned.cyclic_route_
                /\ UNCHANGED <<stack, pc>>
           ELSE LET st == RunSearch([cleaned EXCEPT
                             !.stack = <<Frame("search_any", fromxy, toxy, 0)>>])
                IN  /\ Finish(st, Reverse(st.chosen_route_))
                    /\ chosen_route_' = IF st.thrown THEN st.chosen_route_
                                        ELSE Reverse(st.chosen_route_)
                    /\ cyclic_route_' = st.cyclic_route_

route_any(fromxy, toxy) ==
    /\ pc = "idle"
    /\ ncalls < MaxCalls
    /\ call' = [op |-> "route_any", fromxy |-> fromxy, toxy |-> toxy]
    /\ ncalls' = ncalls + 1
    /\ UNCHANGED <<ways_by_id_, ways_by_coord_>>
    /\ IF Len(ways_from(toxy)) = 0 \/ Len(ways_from(fromxy)) = 0
       THEN /\ ret' = RouteResult(<<<<NO_COORD, NO_WAY, NO_DISTANCE>>>>)
            /\ UNCHANGED <<visited_coordinates_, scratch, stack, pc>>
       ELSE LET cleaned == clean_for_search(SearchState, NORMAL)
                st == RunSearch([cleaned EXCEPT
                          !.stack = <<Frame("search_any", fromxy, toxy, 0)>>])
            IN  /\ Finish(st, Reverse(st.chosen_route_))
                /\ chosen_route_' = IF st.thrown THEN st.chosen_route_
                                    ELSE Reverse(st.chosen_route_)
                /\ cyclic_route_' = st.cyclic_route_

\* ------------------------------------------------------- route_with_cycle
\* Mutant: clean_for_search is called before the test of the precondition
route_with_cycle_clean_first(fromxy) ==
    /\ pc = "idle"
    /\ ncalls < MaxCalls
    /\ call' = [op |-> "route_with_cycle", fromxy |-> fromxy]
    /\ ncalls' = ncalls + 1
    /\ UNCHANGED <<ways_by_id_, ways_by_coord_>>
    /\ LET cleaned == clean_for_search(SearchState, CYCLE)
       IN  IF Len(ways_from(fromxy)) = 0
           THEN /\ ret' = RouteResult(<<<<NO_COORD, NO_WAY>>>>)
                /\ visited_coordinates_' = cleaned.visited_coordinates_
                /\ route_found_' = cleaned.route_found_
                /\ chosen_route_' = cleaned.chosen_route_
                /\ cyclic_route_' = cleaned.cyclic_route_
                /\ UNCHANGED <<stack, pc>>
           ELSE LET st == RunSearch([cleaned EXCEPT
                             !.stack = <<Frame("search_cycle", fromxy, NO_COORD, 0)>>])
                IN  /\ Finish(st, Reverse(st.cyclic_route_))
                    /\ cyclic_route_' = IF st.thrown THEN st.cyclic_route_
                                        ELSE Reverse(st.cyclic_route_)
                    /\ chosen_route_' = st.chosen_route_

route_with_cycle(fromxy) ==
    /\ pc = "idle"
    /\ ncalls < MaxCalls
    /\ call' = [op |-> "route_with_cycle", fromxy |-> fromxy]
    /\ ncalls' = ncalls + 1
    /\ UNCHANGED <<ways_by_id_, ways_by_coord_>>
    /\ IF Len(ways_from(fromxy)) = 0
       THEN /\ ret' = RouteResult(<<<<NO_COORD, NO_WAY>>>>)
            /\ UNCHANGED <<visited_coordinates_, scratch, stack, pc>>
       ELSE LET cleaned == clean_for_search(SearchState, CYCLE)
                st == RunSearch([cleaned EXCEPT
                          !.stack = <<Frame("search_cycle", fromxy, NO_COORD, 0)>>])
            IN  /\ Finish(st, Reverse(st.cyclic_route_))
                /\ cyclic_route_' = IF st.thrown THEN st.cyclic_route_
                                    ELSE Reverse(st.cyclic_route_)
                /\ chosen_route_' = st.chosen_route_

\* ------------------------------------------------------------------ Init
Init ==
    /\ ways_by_id_ = [id \in {} |-> nullptr]
    /\ ways_by_coord_ = [c \in Coords |-> <<>>]
    /\ visited_coordinates_ = [c \in {} |-> nullptr]
    /\ chosen_route_ = <<>>
    /\ cyclic_route_ = <<>>
    /\ route_found_ \in BOOLEAN
    /\ stack = <<>>
    /\ pc = "idle"
    /\ call = [op |-> "none"]
    /\ ret = NoResult("none")
    /\ ncalls = 0

\* Way ids are only ever compared for equality, so the callers pass an id
\* that is present or the first name that is not.
FirstUnused ==
    {WayIdNames[i] : i \in {j \in 1..NumWayIds :
        /\ WayIdNames[j] \notin DOMAIN ways_by_id_
        /\ \A k \in 1..(j - 1) : WayIdNames[k] \in DOMAIN ways_by_id_}}

CallerIds == DOMAIN ways_by_id_ \cup FirstUnused

AddWay == \E id \in CallerIds, coords \in Polylines : add_way(id, coords)

RemoveWay == \E id \in CallerIds : remove_way(id)

ClearWays == clear_ways

RouteAny == \E fromxy \in Coords, toxy \in Coords : route_any(fromxy, toxy)

RouteWithCycle == \E fromxy \in Coords : route_with_cycle(fromxy)

Next ==
    \/ AddWay
    \/ RemoveWay
    \/ ClearWays
    \/ RouteAny
    \/ RouteWithCycle

Spec == Init /\ [][Next]_vars

\* ------------------------------------------------------ ways with geometry
\* SpecWayLength runs the interface of Spec with ways that have intermediate
\* points, so that the sections of a way have lengths that are not integers.
LengthAddWay ==
    /\ ncalls < MaxLengthCalls
    /\ \E id \in CallerIds, coords \in LengthPolylines : add_way(id, coords)

LengthRemoveWay == ncalls < MaxLengthCalls /\ RemoveWay

LengthClearWays == ncalls < MaxLengthCalls /\ ClearWays

LengthRouteAny == ncalls < MaxLengthCalls /\ RouteAny

LengthRouteWithCycle == ncalls < MaxLengthCalls /\ RouteWithCycle

NextWayLength ==
    \/ LengthAddWay
    \/ LengthRemoveWay
    \/ LengthClearWays
    \/ LengthRouteAny
    \/ LengthRouteWithCycle

SpecWayLength == Init /\ [][NextWayLength]_vars

\* ------------------------------------------------- the searches step by step
\* SpecSteps runs the same interface, but a query is a sequence of steps: the
\* call up to the first frame, every step of search_any / search_cycle, and
\* the return.  The other calls are the actions of Spec.

\* The writes of one part of a query
Apply(st) ==
    /\ visited_coordinates_' = st.visited_coordinates_
    /\ route_found_' = st.route_found_
    /\ chosen_route_' = st.chosen_route_
    /\ cyclic_route_' = st.cyclic_route_
    /\ stack' = st.stack
    /\ pc' = IF st.thrown THEN "terminated" ELSE "running"

\* route_any up to the call of search_any
route_any_call(fromxy, toxy) ==
    /\ pc = "idle"
    /\ ncalls < MaxStepCalls
    /\ call' = [op |-> "route_any", fromxy |-> fromxy, toxy |-> toxy]
    /\ ncalls' = ncalls + 1
    /\ UNCHANGED <<ways_by_id_, ways_by_coord_>>
    /\ IF Len(ways_from(toxy)) = 0 \/ Len(ways_from(fromxy)) = 0
       THEN /\ ret' = RouteResult(<<<<NO_COORD, NO_WAY, NO_DISTANCE>>>>)
            /\ UNCHANGED <<visited_coordinates_, scratch, stack, pc>>
       ELSE /\ ret' = NoResult("pending")
            /\ Apply([clean_for_search(SearchState, NORMAL) EXCEPT
                         !.stack = <<Frame("search_any", fromxy, toxy, 0)>>])

\* route_any after search_any has returned
route_any_return ==
    /\ pc = "running"
    /\ stack = <<>>
    /\ call.op = "route_any"
    /\ chosen_route_' = Reverse(chosen_route_)
    /\ ret' = RouteResult(Reverse(chosen_route_))
    /\ pc' = "idle"
    /\ UNCHANGED <<structure, cyclic_route_, route_found_, stack, call, ncalls>>

\* route_with_cycle up to the call of search_cycle
route_with_cycle_call(fromxy) ==
    /\ pc = "idle"
    /\ ncalls < MaxStepCalls
    /\ call' = [op |-> "route_with_cycle", fromxy |-> fromxy]
    /\ ncalls' = ncalls + 1
    /\ UNCHANGED <<ways_by_id_, ways_by_coord_>>
    /\ IF Len(ways_from(fromxy)) = 0
       THEN /\ ret' = RouteResult(<<<<NO_COORD, NO_WAY>>>>)
            /\ UNCHANGED <<visited_coordinates_, scratch, stack, pc>>
       ELSE /\ ret' = NoResult("pending")
            /\ Apply([clean_for_search(SearchState, CYCLE) EXCEPT
                         !.stack = <<Frame("search_cycle", fromxy, NO_COORD, 0)>>])

\* route_with_cycle after search_cycle has returned
route_with_cycle_return ==
    /\ pc = "running"
    /\ stack = <<>>
    /\ call.op = "route_with_cycle"
    /\ cyclic_route_' = Reverse(cyclic_route_)
    /\ ret' = RouteResult(Reverse(cyclic_route_))
    /\ pc' = "idle"
    /\ UNCHANGED <<structure, chosen_route_, route_found_, stack, call, ncalls>>

\* A search is in progress and its innermost frame is in fn at position at
At(fn, at) ==
    /\ pc = "running"
    /\ stack # <<>>
    /\ stack[Len(stack)].fn = fn
    /\ stack[Len(stack)].at = at

\* One step of the innermost frame
Step ==
    /\ Apply(SearchStep(SearchState))
    /\ UNCHANGED <<ways_by_id_, ways_by_coord_, call, ret, ncalls>>

SearchAnyEnter == At("search_any", "enter") /\ Step

SearchAnyLoop == At("search_any", "loop") /\ Step

SearchAnyAfter == At("search_any", "after") /\ Step

SearchCycleEnter == At("search_cycle", "enter") /\ Step

SearchCycleLoop == At("search_cycle", "loop") /\ Step

SearchCycleAfter == At("search_cycle", "after") /\ Step

\* What a query in progress does next
Running ==
    \/ SearchAnyEnter
    \/ SearchAnyLoop
    \/ SearchAnyAfter
    \/ SearchCycleEnter
    \/ SearchCycleLoop
    \/ SearchCycleAfter
    \/ route_any_return
    \/ route_with_cycle_return

StepsAddWay == ncalls < MaxStepCalls /\ AddWay

StepsRemoveWay == ncalls < MaxStepCalls /\ RemoveWay

StepsClearWays == ncalls < MaxStepCalls /\ ClearWays

RouteAnyCall == \E fromxy \in Coords, toxy \in Coords : route_any_call(fromxy, toxy)

RouteWithCycleCall == \E fromxy \in Coords : route_with_cycle_call(fromxy)

NextSteps ==
    \/ StepsAddWay
    \/ StepsRemoveWay
    \/ StepsClearWays
    \/ RouteAnyCall
    \/ RouteWithCycleCall
    \/ Running

\* The calls are synchronous: a query that has been called runs on until it
\* returns.  Every step of a query changes the frames or ends the query.
SpecSteps == Init /\ [][NextSteps]_vars /\ WF_<<stack, pc>>(Running)

\* ====================================================================
\* Properties
\* ====================================================================
Sentinel3 == <<<<NO_COORD, NO_WAY, NO_DISTANCE>>>>

Sentinel2 == <<<<NO_COORD, NO_WAY>>>>

\* The ways of a by-id view that have c as an endpoint
IncidentIn(by_id, c) ==
    {id \in DOMAIN by_id : by_id[id].end1 = c \/ by_id[id].end2 = c}

Incident(c) == IncidentIn(ways_by_id_, c)

\* How many entries of a multimap range carry the id
Occurrences(entries, id) ==
    Cardinality({i \in 1..Len(entries) : entries[i].id = id})

\* How many of the two ends of a way are the coordinate c
EndsAt(way, c) ==
    (IF way.end1 = c THEN 1 ELSE 0) + (IF way.end2 = c THEN 1 ELSE 0)

\* An interface call has just been made by this step.
Called(op) == ncalls' # ncalls /\ call'.op = op

\* C1: in every state between calls, a coordinate has an entry in the
\* crossroad state table if and only if it is the first or last coordinate
\* of at least one way present in the Way Index.
C1_CrossroadIffEndpoint ==
    pc = "idle" =>
        \A c \in Coords : (c \in DOMAIN visited_coordinates_) <=> (Incident(c) # {})

\* C1 witness: a way was removed, and a coordinate that lost its last way is
\* untracked while another coordinate is still tracked.
C1_Witness ==
    /\ call.op = "remove_way"
    /\ ret = BoolResult(TRUE)
    /\ DOMAIN visited_coordinates_ # {}
    /\ DOMAIN visited_coordinates_ # Coords
    /\ \E c \in Coords : Incident(c) = {} /\ ways_by_coord_[c] = <<>>

\* C2: the two views of the Way Index agree: a way present by id is stored
\* in the by-coordinate view once under each of its ends (twice under the
\* coordinate of a self-loop) and nowhere else, each entry being the record
\* stored by id, and no entry belongs to a way that is not present by id.
C2_ViewsAgree ==
    pc = "idle" =>
        \A c \in Coords :
            /\ \A i \in 1..Len(ways_by_coord_[c]) :
                  /\ ways_by_coord_[c][i].id \in DOMAIN ways_by_id_
                  /\ ways_by_coord_[c][i] = ways_by_id_[ways_by_coord_[c][i].id]
            /\ \A id \in DOMAIN ways_by_id_ :
                  Occurrences(ways_by_coord_[c], id) = EndsAt(ways_by_id_[id], c)

\* C2 witness: after a removal, a coordinate still holds a self-loop (stored
\* twice) beside another way.
C2_Witness ==
    /\ call.op = "remove_way"
    /\ ret = BoolResult(TRUE)
    /\ \E c \in Coords, id \in DOMAIN ways_by_id_ :
          /\ Occurrences(ways_by_coord_[c], id) = 2
          /\ Len(ways_by_coord_[c]) = 3

\* C3: add_way returns false exactly when the id is already present, and
\* then the by-id view (the stored record included), the by-coordinate view
\* and the crossroad state table are unchanged; for an absent id it returns
\* true.
C3_AddWayDuplicate ==
    [][Called("add_way") =>
          /\ (ret' = BoolResult(FALSE)) <=> (call'.id \in DOMAIN ways_by_id_)
          /\ (ret' = BoolResult(TRUE)) <=> (call'.id \notin DOMAIN ways_by_id_)
          /\ (call'.id \in DOMAIN ways_by_id_) =>
                /\ ways_by_id_' = ways_by_id_
                /\ ways_by_coord_' = ways_by_coord_
                /\ visited_coordinates_' = visited_coordinates_
      ]_vars

\* C3 witness: add_way with another polyline was refused for an id that is
\* present.
C3_Witness ==
    /\ call.op = "add_way"
    /\ ret = BoolResult(FALSE)
    /\ call.id \in DOMAIN ways_by_id_
    /\ ways_by_id_[call.id].coordinates # call.coords

\* C4: remove_way returns false exactly when the id is absent, and then the
\* Way Index and the crossroad state table are unchanged; for a present id it
\* returns true and the id is absent afterwards.
C4_RemoveWayUnknown ==
    [][Called("remove_way") =>
          /\ (ret' = BoolResult(FALSE)) <=> (call'.id \notin DOMAIN ways_by_id_)
          /\ (call'.id \notin DOMAIN ways_by_id_) =>
                /\ ways_by_id_' = ways_by_id_
                /\ ways_by_coord_' = ways_by_coord_
                /\ visited_coordinates_' = visited_coordinates_
          /\ (call'.id \in DOMAIN ways_by_id_) =>
                /\ ret' = BoolResult(TRUE)
                /\ call'.id \notin DOMAIN ways_by_id_'
      ]_vars

\* C4 witness: remove_way of an unknown id was refused while ways exist.
C4_Witness ==
    /\ call.op = "remove_way"
    /\ ret = BoolResult(FALSE)
    /\ DOMAIN ways_by_id_ # {}

\* C5: when remove_way removes the only way incident to a coordinate (a
\* self-loop included), the coordinate has no crossroad-state entry
\* afterwards and ways_from of it is empty.
C5_LastWayRemoved ==
    [][(Called("remove_way") /\ ret' = BoolResult(TRUE)) =>
          \A c \in Coords :
              (Incident(c) = {call'.id}) =>
                  /\ c \notin DOMAIN visited_coordinates_'
                  /\ WaysFromIn(ways_by_coord_', c) = <<>>
      ]_vars

\* C5 witness: the only way was added and removed again, leaving its ends
\* untracked and without ways.
C5_Witness ==
    /\ call.op = "remove_way"
    /\ ret = BoolResult(TRUE)
    /\ ncalls = 2
    /\ DOMAIN ways_by_id_ = {}
    /\ DOMAIN visited_coordinates_ = {}
    /\ \A c \in Coords : ways_from(c) = <<>>

\* ------------------------------------------------------------ route_any
RouteAnyDone == pc = "idle" /\ call.op = "route_any"

\* route_any has returned a result that is neither empty nor the sentinel
RouteAnyFound == RouteAnyDone /\ ret.route # <<>> /\ ret.route # Sentinel3

\* The way w is present and its two ends are the coordinates a and b.
Connects(w, a, b) ==
    /\ w \in DOMAIN ways_by_id_
    /\ \/ ways_by_id_[w].end1 = a /\ ways_by_id_[w].end2 = b
       \/ ways_by_id_[w].end1 = b /\ ways_by_id_[w].end2 = a

\* The example of the specification: W1 (0,0)-(0,3), W2 (0,3)-(4,3) and the
\* query route_any((0,0), (4,3)).
ExampleQuery ==
    /\ RouteAnyDone
    /\ DOMAIN ways_by_id_ = {"W1", "W2"}
    /\ ways_by_id_["W1"].coordinates = <<<<0, 0>>, <<0, 3>>>>
    /\ ways_by_id_["W2"].coordinates = <<<<0, 3>>, <<4, 3>>>>
    /\ call.fromxy = <<0, 0>>
    /\ call.toxy = <<4, 3>>

\* C6 as claimed: in a found result the way of the later entry of each
\* consecutive pair connects the two coordinates and its length is the
\* difference of the two distances, the first entry has distance 0 and
\* NO_WAY, and the example returns
\* [((0,0),NO_WAY,0), ((0,3),W1,3), ((4,3),W2,7)].
C6_Original ==
    /\ RouteAnyFound =>
          /\ ret.route[1][3] = 0
          /\ ret.route[1][2] = NO_WAY
          /\ \A i \in 1..(Len(ret.route) - 1) :
                /\ Connects(ret.route[i + 1][2], ret.route[i][1], ret.route[i + 1][1])
                /\ ret.route[i + 1][3] - ret.route[i][3] = ways_by_id_[ret.route[i + 1][2]].length
    /\ ExampleQuery =>
          ret.route = <<<<<<0, 0>>, NO_WAY, 0>>, <<<<0, 3>>, "W1", 3>>, <<<<4, 3>>, "W2", 7>>>>

\* C6 as amended: in a found result the way of the earlier entry of each
\* consecutive pair connects the two coordinates and its length is the
\* difference of the two distances, the first entry has distance 0, the
\* last entry has NO_WAY, and the example returns
\* [((0,0),W1,0), ((0,3),W2,3), ((4,3),NO_WAY,7)].
C6_WayLeavesEntry ==
    /\ RouteAnyFound =>
          /\ ret.route[1][3] = 0
          /\ ret.route[Len(ret.route)][2] = NO_WAY
          /\ \A i \in 1..(Len(ret.route) - 1) :
                /\ Connects(ret.route[i][2], ret.route[i][1], ret.route[i + 1][1])
                /\ ret.route[i + 1][3] - ret.route[i][3] = ways_by_id_[ret.route[i][2]].length
    /\ ExampleQuery =>
          ret.route = <<<<<<0, 0>>, "W1", 0>>, <<<<0, 3>>, "W2", 3>>, <<<<4, 3>>, NO_WAY, 7>>>>

\* C6 witness: the example query has returned its three entries.
C6_Witness == ExampleQuery /\ Len(ret.route) = 3

\* The coordinates joined to a coordinate of S by a chain of present ways
RECURSIVE ReachFrom(_)
ReachFrom(S) ==
    LET more == S \cup {c \in Coords :
                    \E id \in DOMAIN ways_by_id_ :
                        \/ ways_by_id_[id].end1 \in S /\ ways_by_id_[id].end2 = c
                        \/ ways_by_id_[id].end2 \in S /\ ways_by_id_[id].end1 = c}
    IN  IF more = S THEN S ELSE ReachFrom(more)

\* C7: when both coordinates have an incident way, route_any returns a
\* non-empty result if the goal is joined to the start by ways, and the
\* empty sequence (not the sentinel) if it is not.
C7_FoundIffReachable ==
    (/\ RouteAnyDone
     /\ ways_from(call.fromxy) # <<>>
     /\ ways_from(call.toxy) # <<>>) =>
        IF call.toxy \in ReachFrom({call.fromxy})
        THEN ret.route # <<>> /\ ret.route # Sentinel3
        ELSE ret.route = <<>>

\* C7 witness: both coordinates have ways, the goal is not reachable and the
\* result is empty.
C7_Witness ==
    /\ RouteAnyDone
    /\ ways_from(call.fromxy) # <<>>
    /\ ways_from(call.toxy) # <<>>
    /\ call.toxy \notin ReachFrom({call.fromxy})
    /\ ret.route = <<>>

\* ------------------------------------------------------- route_with_cycle
RouteWithCycleDone == pc = "idle" /\ call.op = "route_with_cycle"

\* The ways with an end in the set S
WaysWithin(S) == {id \in DOMAIN ways_by_id_ : ways_by_id_[id].end1 \in S}

\* A cycle (a self-loop, two ways between the same two coordinates, or a
\* longer closed walk that never retraces the way it just took) is reachable
\* from c exactly when the connected part of c is not a tree, that is when it
\* has at least as many ways as coordinates.
CycleReachable(c) ==
    Cardinality(WaysWithin(ReachFrom({c}))) >= Cardinality(ReachFrom({c}))

\* C8: when the start has an incident way, route_with_cycle returns a
\* non-empty result if a cycle is reachable from the start and the empty
\* sequence if none is.
C8_CycleIffReachable ==
    (RouteWithCycleDone /\ ways_from(call.fromxy) # <<>>) =>
        IF CycleReachable(call.fromxy)
        THEN ret.route # <<>> /\ ret.route # Sentinel2
        ELSE ret.route = <<>>

\* C8 witness: a cycle through three different coordinates was returned.
C8_Witness ==
    /\ RouteWithCycleDone
    /\ Len(ret.route) = 4
    /\ Cardinality({ret.route[i][1] : i \in 1..Len(ret.route)}) = 3
    /\ CycleReachable(call.fromxy)

\* C9: route_any(x, x) for a coordinate x with an incident way returns
\* exactly [(x, NO_WAY, 0)].
C9_SameCoordinate ==
    (/\ RouteAnyDone
     /\ call.fromxy = call.toxy
     /\ ways_from(call.fromxy) # <<>>) =>
        ret.route = <<<<call.fromxy, NO_WAY, 0>>>>

\* C9 witness: route_any(x, x) returned the single entry at a coordinate
\* with a self-loop, after an earlier query that found a cycle.
C9_Witness ==
    /\ RouteAnyDone
    /\ call.fromxy = call.toxy
    /\ ret.route = <<<<call.fromxy, NO_WAY, 0>>>>
    /\ cyclic_route_ # <<>>
    /\ \E id \in DOMAIN ways_by_id_ :
          Occurrences(ways_by_coord_[call.fromxy], id) = 2

\* C10: route_any with a start or a goal that has no incident way returns
\* exactly [(NO_COORD, NO_WAY, NO_DISTANCE)] and modifies no visited flag, no
\* distance, neither the found flag nor a result buffer.
C10_PreconditionFailure ==
    [][(/\ Called("route_any")
        /\ \/ ways_from(call'.fromxy) = <<>>
           \/ ways_from(call'.toxy) = <<>>) =>
          /\ ret' = RouteResult(Sentinel3)
          /\ visited_coordinates_' = visited_coordinates_
          /\ route_found_' = route_found_
          /\ chosen_route_' = chosen_route_
          /\ cyclic_route_' = cyclic_route_
      ]_vars

\* C10 witness: the sentinel was returned while the marks and the route of
\* an earlier found query are still in place.
C10_Witness ==
    /\ RouteAnyDone
    /\ ret = RouteResult(Sentinel3)
    /\ route_found_
    /\ chosen_route_ # <<>>
    /\ \E c \in DOMAIN visited_coordinates_ : visited_coordinates_[c].visited

\* C11: route_with_cycle from a coordinate with no incident way returns
\* exactly [(NO_COORD, NO_WAY)] and modifies no visited flag, no distance,
\* neither the found flag nor a result buffer.
C11_CyclePreconditionFailure ==
    [][(Called("route_with_cycle") /\ ways_from(call'.fromxy) = <<>>) =>
          /\ ret' = RouteResult(Sentinel2)
          /\ visited_coordinates_' = visited_coordinates_
          /\ route_found_' = route_found_
          /\ chosen_route_' = chosen_route_
          /\ cyclic_route_' = cyclic_route_
      ]_vars

\* C11 witness: the sentinel was returned while the marks and the cycle of
\* an earlier found query are still in place.
C11_Witness ==
    /\ RouteWithCycleDone
    /\ ret = RouteResult(Sentinel2)
    /\ route_found_
    /\ cyclic_route_ # <<>>
    /\ \E c \in DOMAIN visited_coordinates_ : visited_coordinates_[c].visited

\* route_with_cycle has returned a result that is neither empty nor the
\* sentinel
RouteWithCycleFound == RouteWithCycleDone /\ ret.route # <<>> /\ ret.route # Sentinel2

\* C12 as claimed: no entry of a found path or cycle contains NO_COORD,
\* NO_WAY or NO_DISTANCE.
C12_Original ==
    /\ RouteAnyFound =>
          \A i \in 1..Len(ret.route) :
              ret.route[i][1] # NO_COORD /\ ret.route[i][2] # NO_WAY /\ ret.route[i][3] # NO_DISTANCE
    /\ RouteWithCycleFound =>
          \A i \in 1..Len(ret.route) : ret.route[i][1] # NO_COORD /\ ret.route[i][2] # NO_WAY

\* C12: no entry of a found path or cycle contains NO_COORD or NO_DISTANCE,
\* and NO_WAY is the way of the last entry (the terminator pushed at the goal
\* or at the coordinate that closes the cycle) and of no other entry.
C12_SentinelOnlyInTerminator ==
    /\ RouteAnyFound =>
          \A i \in 1..Len(ret.route) :
              /\ ret.route[i][1] # NO_COORD
              /\ ret.route[i][3] # NO_DISTANCE
              /\ (ret.route[i][2] = NO_WAY) <=> (i = Len(ret.route))
    /\ RouteWithCycleFound =>
          \A i \in 1..Len(ret.route) :
              /\ ret.route[i][1] # NO_COORD
              /\ (ret.route[i][2] = NO_WAY) <=> (i = Len(ret.route))

\* C12 witness: a found path over a way, after a found cycle whose result is
\* still in its buffer.
C12_Witness ==
    /\ RouteAnyFound
    /\ Len(ret.route) = 2
    /\ Len(cyclic_route_) >= 2
    /\ cyclic_route_[Len(cyclic_route_)][2] = NO_WAY

\* How many pairs of a ways_from result carry the id
PairsOf(pairs, id) == Cardinality({i \in 1..Len(pairs) : pairs[i][1] = id})

\* C13: in every state between calls and for every coordinate c, ways_from(c)
\* holds for every present way as many pairs as the way has ends at c (one
\* for a way with one end at c, two for a self-loop at c, none otherwise),
\* every pair names a present way together with the end opposite to c (c
\* itself for a self-loop), and the result is empty when no way has an end
\* at c.
C13_WaysFromPerIncidence ==
    pc = "idle" =>
        \A c \in Coords :
            /\ \A id \in DOMAIN ways_by_id_ :
                   PairsOf(ways_from(c), id) = EndsAt(ways_by_id_[id], c)
            /\ \A i \in 1..Len(ways_from(c)) :
                   LET id == ways_from(c)[i][1]
                       other == ways_from(c)[i][2]
                   IN  /\ id \in DOMAIN ways_by_id_
                       /\ {c, other} = {ways_by_id_[id].end1, ways_by_id_[id].end2}
            /\ (Incident(c) = {}) => (ways_from(c) = <<>>)

\* C13 witness: a coordinate with a self-loop and a way stored from the other
\* end, and a coordinate with no way, after a removal or a refused call.
C13_Witness ==
    /\ pc = "idle"
    /\ ncalls = 4
    /\ \E c \in Coords, d \in Coords, id1 \in DOMAIN ways_by_id_, id2 \in DOMAIN ways_by_id_ :
          /\ c # d
          /\ ways_by_id_[id1].end1 = c /\ ways_by_id_[id1].end2 = c
          /\ ways_by_id_[id2].end1 = d /\ ways_by_id_[id2].end2 = c
          /\ Len(ways_from(c)) = 3
          /\ PairsOf(ways_from(c), id1) = 2
          /\ <<id2, d>> \in {ways_from(c)[i] : i \in 1..3}
    /\ \E e \in Coords : ways_from(e) = <<>>

\* C14: route_any and route_with_cycle leave both views of the Way Index as
\* they were and neither create nor destroy an entry of the crossroad state
\* table: the table keeps its coordinates, only the visited flags and the
\* distances of its entries may differ.
C14_QueriesKeepStructure ==
    [][(Called("route_any") \/ Called("route_with_cycle")) =>
          /\ ways_by_id_' = ways_by_id_
          /\ ways_by_coord_' = ways_by_coord_
          /\ DOMAIN visited_coordinates_' = DOMAIN visited_coordinates_
          /\ \A c \in DOMAIN visited_coordinates_ :
                visited_coordinates_'[c].coordinates = visited_coordinates_[c].coordinates
      ]_vars

\* C14 witness: a cycle through three ways was found, which rewrote the
\* visited flags of three crossroads.
C14_Witness ==
    /\ RouteWithCycleFound
    /\ Len(ret.route) = 4
    /\ Cardinality(DOMAIN ways_by_id_) = 3
    /\ Cardinality(DOMAIN visited_coordinates_) = 3
    /\ \A c \in DOMAIN visited_coordinates_ : visited_coordinates_[c].visited

\* C15: no lookup of a query misses: unordered_map::at never throws in
\* search_any or search_cycle, so the program is never ended by an uncaught
\* exception and every query returns.
C15_QueryNeverThrows == pc # "terminated"

\* C15 witness: a query found a route over the way that remained after the
\* way added first was removed.
C15_Witness ==
    /\ RouteAnyFound
    /\ Len(ret.route) = 2
    /\ DOMAIN ways_by_id_ = {WayIdNames[2]}
    /\ ncalls = 4

\* C16: every search that was started returns: a query in progress always
\* reaches the state in which route_any or route_with_cycle has returned.
C16_SearchTerminates == (pc = "running") ~> (pc = "idle")

\* C16 witness: a search started at a coordinate with a self-loop, on a
\* graph changed by a removal or holding a second way, has returned without
\* a route.
C16_Witness ==
    /\ pc = "idle"
    /\ call.op = "route_any"
    /\ ret = RouteResult(<<>>)
    /\ ncalls = MaxStepCalls
    /\ \E id \in DOMAIN ways_by_id_ :
          ways_by_id_[id].end1 = call.fromxy /\ ways_by_id_[id].end2 = call.fromxy

\* The number of coordinates tracked in the crossroad state table
Tracked == Cardinality(DOMAIN visited_coordinates_)

\* C17 as claimed: while a search is in progress the number of active frames
\* is at most the number of tracked coordinates.
C17_Original == pc = "running" => Len(stack) <= Tracked

\* C17: while search_any is in progress the number of active frames is at
\* most the number of tracked coordinates; while search_cycle is in progress
\* it is at most that number plus one, the frame entered on the visited
\* coordinate that closes the cycle.
C17_DepthBound ==
    pc = "running" =>
        Len(stack) <= Tracked + (IF call.op = "route_with_cycle" THEN 1 ELSE 0)

\* C17 witness: search_cycle is three frames deep on two ways between the
\* same two coordinates, the only tracked ones.
C17_Witness ==
    /\ pc = "running"
    /\ call.op = "route_with_cycle"
    /\ Tracked = 2
    /\ Len(stack) = 3

\* C18: after clear_ways, all_ways() is empty, ways_from(c) is empty for
\* every coordinate, the crossroad state table has no entry and both result
\* buffers are empty; and the add_way that follows a clear_ways succeeds,
\* whichever id it is given.
C18_ClearWaysResets ==
    [][/\ Called("clear_ways") =>
            /\ all_ways' = {}
            /\ \A c \in Coords : ways_from(c)' = <<>>
            /\ DOMAIN visited_coordinates_' = {}
            /\ chosen_route_' = <<>>
            /\ cyclic_route_' = <<>>
       /\ (call.op = "clear_ways" /\ Called("add_way")) =>
            /\ ret' = BoolResult(TRUE)
            /\ all_ways' = {call'.id}
      ]_vars

\* C18 witness: clear_ways has returned as the third call of a run in which
\* a search had set the found flag.
C18_Witness ==
    /\ pc = "idle"
    /\ call.op = "clear_ways"
    /\ ncalls = 3
    /\ route_found_
    /\ all_ways = {}
    /\ chosen_route_ = <<>>
    /\ cyclic_route_ = <<>>

\* The greatest natural number whose square is at most the squared Euclidean
\* distance of a and b: the floor of the distance
SegmentFloor(a, b) ==
    LET d2 == (a[1] - b[1]) * (a[1] - b[1]) + (a[2] - b[2]) * (a[2] - b[2])
        below == {r \in 0..d2 : r * r <= d2}
    IN  CHOOSE r \in below : \A q \in below : q <= r

RECURSIVE SumOfFloors(_)
SumOfFloors(coords) ==
    IF Len(coords) < 2 THEN 0
    ELSE SegmentFloor(coords[1], coords[2]) + SumOfFloors(Tail(coords))

\* The floor of the length of a whole polyline of two sections: the greatest
\* r at most sqrt(a) + sqrt(b), a and b being the squared section lengths,
\* that is with r * r - a - b <= 2 * sqrt(a * b)
WholeFloor3(coords) ==
    LET a == (coords[1][1] - coords[2][1]) * (coords[1][1] - coords[2][1])
               + (coords[1][2] - coords[2][2]) * (coords[1][2] - coords[2][2])
        b == (coords[2][1] - coords[3][1]) * (coords[2][1] - coords[3][1])
               + (coords[2][2] - coords[3][2]) * (coords[2][2] - coords[3][2])
        below == {r \in 0..(a + b) :
                     \/ r * r <= a + b
                     \/ (r * r - a - b) * (r * r - a - b) <= 4 * a * b}
    IN  CHOOSE r \in below : \A q \in below : q <= r

\* C19: after every step, the length of every present way is the sum over
\* its sections of the floor of the Euclidean length of the section, and a
\* way that was present before the step has the length it had.
C19_LengthPerSegment ==
    [][\A id \in DOMAIN ways_by_id_' :
          /\ ways_by_id_'[id].length = SumOfFloors(ways_by_id_'[id].coordinates)
          /\ (id \in DOMAIN ways_by_id_) =>
                (ways_by_id_'[id].length = ways_by_id_[id].length)
      ]_vars

\* C19 witness: a way of two sections whose length is less than the floor of
\* the length of its whole polyline is still present, with a second way,
\* after a search has run over it.
C19_Witness ==
    /\ RouteAnyFound
    /\ Cardinality(DOMAIN ways_by_id_) = 2
    /\ \E id \in DOMAIN ways_by_id_ :
          /\ Len(ways_by_id_[id].coordinates) = 3
          /\ ways_by_id_[id].length < WholeFloor3(ways_by_id_[id].coordinates)
          /\ ret.route[Len(ret.route)][3] = ways_by_id_[id].length

\* C20: after every step and for every id, get_way_coords(id) is the
\* sequence given to the add_way that has just succeeded for the id, is what
\* it was before the step when the id was and is present, and is [NO_COORD]
\* when the id is not present (never added, removed or cleared).
C20_GetWayCoords ==
    [][\A i \in 1..Len(WayIdNames) :
          LET id == WayIdNames[i]
          IN  /\ (Called("add_way") /\ call'.id = id /\ ret' = BoolResult(TRUE)) =>
                    (get_way_coords(id)' = call'.coords)
              /\ (id \in all_ways /\ id \in all_ways') =>
                    (get_way_coords(id)' = get_way_coords(id))
              /\ (id \notin all_ways') => (get_way_coords(id)' = <<NO_COORD>>)
      ]_vars

\* C20 witness: the way through an intermediate point still returns its three
\* coordinates after a second way was added and removed and a search has run.
C20_Witness ==
    /\ RouteAnyFound
    /\ ncalls = 4
    /\ all_ways = {WayIdNames[1]}
    /\ get_way_coords(WayIdNames[1]) = <<<<0, 0>>, <<4, 3>>, <<0, 3>>>>
    /\ get_way_coords(WayIdNames[2]) = <<NO_COORD>>

\* A search has been called and has not yet made a step: its only frame is
\* at its first statement.
FirstSearchStep ==
    /\ pc = "running"
    /\ Len(stack) = 1
    /\ stack[1].at = "enter"

\* C21: when the first frame of a search is about to make its first step,
\* the found flag is false, every tracked coordinate is unvisited with the
\* distance NO_VALUE, and the result buffer of the mode that was asked for is
\* empty.
C21_SearchStartsReset ==
    FirstSearchStep =>
        /\ route_found_ = FALSE
        /\ \A c \in DOMAIN visited_coordinates_ :
              /\ visited_coordinates_[c].visited = FALSE
              /\ visited_coordinates_[c].distance = NO_VALUE
        /\ (call.op = "route_any") => (chosen_route_ = <<>>)
        /\ (call.op = "route_with_cycle") => (cyclic_route_ = <<>>)

\* C21 witness: route_any is at its first search step as the third call,
\* after a cycle was found whose result is still in the other buffer.
C21_Witness ==
    /\ FirstSearchStep
    /\ call.op = "route_any"
    /\ ncalls = 3
    /\ Len(cyclic_route_) >= 2

\* C22: a found route_any(from, to) result starts with an entry at from with
\* distance 0 and ends with (to, NO_WAY, total); every earlier entry
\* (c_i, w_i, d_i) names a present way w_i whose ends are c_i and the
\* coordinate of the next entry, and the next distance is d_i + length(w_i),
\* so that the total is the sum of the lengths of the ways of the result.
C22_StartToGoal ==
    RouteAnyFound =>
        LET r == ret.route
            n == Len(ret.route)
        IN  /\ r[1][1] = call.fromxy
            /\ r[1][3] = 0
            /\ r[n][1] = call.toxy
            /\ r[n][2] = NO_WAY
            /\ \A i \in 1..(n - 1) :
                  /\ r[i][2] \in DOMAIN ways_by_id_
                  /\ {r[i][1], r[i + 1][1]} =
                        {ways_by_id_[r[i][2]].end1, ways_by_id_[r[i][2]].end2}
                  /\ r[i + 1][3] = r[i][3] + ways_by_id_[r[i][2]].length
            /\ \A i \in 1..n : r[i][3] >= 0 /\ r[i][3] <= r[n][3]

\* C22 witness: a route over the three-point way (length 9) and then the way
\* of length 4 has been returned, with the distances 0, 9 and 13.
C22_Witness ==
    /\ RouteAnyFound
    /\ Len(ret.route) = 3
    /\ ret.route[1][3] = 0
    /\ ret.route[2][3] = 9
    /\ ret.route[3] = <<call.toxy, NO_WAY, 13>>

\* C23: once the found flag is set during a search, every step until the
\* search returns pops the innermost frame after appending one entry, the
\* frame's own coordinate with the way it was exploring, to the buffer of
\* the mode; no visited flag or distance changes, no frame is pushed and the
\* flag stays set.
C23_FirstFoundShortCircuit ==
    [][(pc = "running" /\ route_found_ /\ stack # <<>>) =>
          LET top == stack[Len(stack)]
              buffer == IF call.op = "route_any" THEN chosen_route_ ELSE cyclic_route_
              buffer2 == IF call.op = "route_any" THEN chosen_route_' ELSE cyclic_route_'
          IN  /\ stack' = Pop(stack)
              /\ visited_coordinates_' = visited_coordinates_
              /\ route_found_'
              /\ Len(buffer2) = Len(buffer) + 1
              /\ SubSeq(buffer2, 1, Len(buffer)) = buffer
              /\ buffer2[Len(buffer2)][1] = top.current
              /\ buffer2[Len(buffer2)][2] = top.current_ways[top.it][1]
              /\ (call.op = "route_any") => (cyclic_route_' = cyclic_route_)
              /\ (call.op = "route_with_cycle") => (chosen_route_' = chosen_route_)
      ]_vars

\* C23 witness: route_any returned the route of length 9 that it found
\* first, although a way of length 3 joins the start and the goal directly.
C23_Witness ==
    /\ RouteAnyFound
    /\ ret.route[Len(ret.route)][3] = 9
    /\ \E id \in DOMAIN ways_by_id_ :
          /\ ways_by_id_[id].length = 3
          /\ Connects(id, call.fromxy, call.toxy)

\* The innermost frame is search_cycle about to test a neighbour
CycleNeighbourTest ==
    /\ pc = "running"
    /\ stack # <<>>
    /\ stack[Len(stack)].fn = "search_cycle"
    /\ stack[Len(stack)].at = "loop"
    /\ stack[Len(stack)].it <= Len(stack[Len(stack)].current_ways)

\* The way over which the innermost frame was entered: the way its caller is
\* exploring, NO_WAY for the first frame
ArrivedBy ==
    IF Len(stack) = 1 THEN NO_WAY
    ELSE stack[Len(stack) - 1].current_ways[stack[Len(stack) - 1].it][1]

\* C24 as claimed: when search_cycle tests a neighbour over a way other than
\* the way it arrived by, it calls search_cycle on that neighbour, be the
\* neighbour visited or the predecessor reached over a parallel way.
C24_Original ==
    [][(/\ CycleNeighbourTest
        /\ stack[Len(stack)].current_ways[stack[Len(stack)].it][1] # ArrivedBy) =>
          /\ Len(stack') = Len(stack) + 1
          /\ stack'[Len(stack')].current =
                stack[Len(stack)].current_ways[stack[Len(stack)].it][2]
      ]_vars

\* The entries of a multimap range that do not belong to the id, in order
WithoutWay(entries, id) == SelectSeq(entries, LAMBDA e : e.id # id)

\* The pairs of a ways_from result that do not belong to the id, in order
WithoutPairsOf(pairs, id) == SelectSeq(pairs, LAMBDA q : q[1] # id)

\* C25: remove_way of a present id takes from the by-coordinate view one
\* entry per end of the way (two under the coordinate of a self-loop) and
\* no other entry, leaves the record of every other way as it was, takes
\* from ways_from of every coordinate the pairs of the id only, keeps the
\* crossroad entry of every coordinate that still has a way, and leaves the
\* found flag and the result buffers alone.
C25_RemoveWayFrame ==
    [][\A i \in 1..Len(WayIdNames) :
          LET id == WayIdNames[i]
          IN  (Called("remove_way") /\ call'.id = id /\ id \in DOMAIN ways_by_id_) =>
                /\ ret' = BoolResult(TRUE)
                /\ DOMAIN ways_by_id_' = DOMAIN ways_by_id_ \ {id}
                /\ \A other \in DOMAIN ways_by_id_' :
                      ways_by_id_'[other] = ways_by_id_[other]
                /\ \A c \in Coords :
                      /\ ways_by_coord_'[c] = WithoutWay(ways_by_coord_[c], id)
                      /\ Len(ways_by_coord_[c]) - Len(ways_by_coord_'[c])
                            = EndsAt(ways_by_id_[id], c)
                      /\ ways_from(c)' = WithoutPairsOf(ways_from(c), id)
                      /\ (IncidentIn(ways_by_id_', c) # {}) =>
                            /\ c \in DOMAIN visited_coordinates_'
                            /\ visited_coordinates_'[c] = visited_coordinates_[c]
                /\ UNCHANGED scratch
      ]_vars

\* C25 witness: a way was removed while a self-loop and a way to another
\* coordinate remain at one of its ends.
C25_Witness ==
    /\ pc = "idle"
    /\ call.op = "remove_way"
    /\ ret = BoolResult(TRUE)
    /\ Cardinality(DOMAIN ways_by_id_) = 2
    /\ \E c \in Coords : Len(ways_by_coord_[c]) = 3
    /\ Cardinality(DOMAIN visited_coordinates_) = 2

\* The ways that start and end at c
SelfLoopsAt(c) ==
    {id \in DOMAIN ways_by_id_ :
        ways_by_id_[id].end1 = c /\ ways_by_id_[id].end2 = c}

\* C26: when the only way at the start is a self-loop W, route_with_cycle
\* returns [(from, W), (from, NO_WAY)]; and when a coordinate with a
\* self-loop can be reached from the start, the result is not empty.
C26_SelfLoopIsCycle ==
    RouteWithCycleDone =>
        /\ \A id \in DOMAIN ways_by_id_ :
              (Incident(call.fromxy) = {id} /\ SelfLoopsAt(call.fromxy) = {id}) =>
                  (ret.route = <<<<call.fromxy, id>>, <<call.fromxy, NO_WAY>>>>)
        /\ (/\ Incident(call.fromxy) # {}
            /\ \E c \in ReachFrom({call.fromxy}) : SelfLoopsAt(c) # {}) =>
                  (ret.route # <<>> /\ ret.route # Sentinel2)

\* C26 witness: a cycle query that started two ways away from the only
\* self-loop has returned a result that ends at the coordinate of the loop.
C26_Witness ==
    /\ RouteWithCycleFound
    /\ Cardinality(DOMAIN ways_by_id_) = 3
    /\ Len(ret.route) = 4
    /\ SelfLoopsAt(call.fromxy) = {}
    /\ SelfLoopsAt(ret.route[3][1]) # {}
    /\ ret.route[4] = <<ret.route[3][1], NO_WAY>>

\* C27 as claimed: the coordinate of the last entry of a found
\* route_with_cycle result is also the coordinate of an earlier entry.
C27_Original ==
    RouteWithCycleFound =>
        \E i \in 1..(Len(ret.route) - 1) :
            ret.route[i][1] = ret.route[Len(ret.route)][1]

\* C28: a found route_with_cycle(from) result starts at from, has NO_WAY in
\* its last entry and in no other, and the way of every entry but the last
\* is present and has the coordinate of its entry and the coordinate of the
\* next entry as its two ends.
C28_CycleResultWalkable ==
    RouteWithCycleFound =>
        LET r == ret.route
            n == Len(ret.route)
        IN  /\ n >= 2
            /\ r[1][1] = call.fromxy
            /\ \A i \in 1..n : (r[i][2] = NO_WAY) <=> (i = n)
            /\ \A i \in 1..(n - 1) :
                  /\ r[i][2] \in DOMAIN ways_by_id_
                  /\ {ways_by_id_[r[i][2]].end1, ways_by_id_[r[i][2]].end2}
                        = {r[i][1], r[i + 1][1]}

\* C28 witness: a result of two ways or more that passes a coordinate whose
\* first way was not the one taken, so that a later way is recorded.
C28_Witness ==
    /\ RouteWithCycleFound
    /\ Len(ret.route) >= 3
    /\ \E i \in 1..(Len(ret.route) - 1) :
          /\ ways_from(ret.route[i][1])[1][1] # ret.route[i][2]
          /\ ret.route[i][1] # ret.route[i + 1][1]

\* C29: while search_any runs, no two active frames are at the same
\* coordinate and every coordinate with a frame is marked visited; and in a
\* found route_any result no coordinate occurs in two entries and no way
\* occurs in two entries.
C29_SimplePath ==
    /\ (pc = "running" /\ call.op = "route_any") =>
          \A i \in 1..Len(stack) :
              /\ \A j \in 1..Len(stack) :
                    (i # j) => (stack[i].current # stack[j].current)
              /\ (stack[i].at # "enter") =>
                    visited_coordinates_[stack[i].current].visited
    /\ RouteAnyFound =>
          \A i \in 1..Len(ret.route) : \A j \in 1..Len(ret.route) :
              (i # j) =>
                  /\ ret.route[i][1] # ret.route[j][1]
                  /\ ret.route[i][2] # ret.route[j][2]

\* C29 witness: a route over one way was found from a coordinate whose
\* self-loop is stored before the way that was taken.
C29_Witness ==
    /\ RouteAnyFound
    /\ Len(ret.route) = 2
    /\ SelfLoopsAt(call.fromxy) # {}
    /\ ways_from(call.fromxy)[1][2] = call.fromxy

\* The search state of a structure on which no query has run yet: the
\* crossroad entries as add_way constructs them, no flag, empty buffers
PristineSearchState ==
    [visited_coordinates_ |->
        [c \in DOMAIN visited_coordinates_ |-> Crossroad_data(c)],
     route_found_ |-> FALSE,
     chosen_route_ |-> <<>>,
     cyclic_route_ |-> <<>>,
     stack |-> <<>>,
     thrown |-> FALSE]

\* What route_any and route_with_cycle return on the present ways when run
\* from the pristine search state
PristineRouteAny(fromxy, toxy) ==
    IF ways_from(fromxy) = <<>> \/ ways_from(toxy) = <<>> THEN Sentinel3
    ELSE Reverse(RunSearch([PristineSearchState EXCEPT
             !.stack = <<Frame("search_any", fromxy, toxy, 0)>>]).chosen_route_)

PristineRouteWithCycle(fromxy) ==
    IF ways_from(fromxy) = <<>> THEN Sentinel2
    ELSE Reverse(RunSearch([PristineSearchState EXCEPT
             !.stack = <<Frame("search_cycle", fromxy, NO_COORD, 0)>>]).cyclic_route_)

\* C30: a query returns what it returns on the same ways, in the same
\* ways_from order, when no query has run before, whatever queries ran
\* before it; in particular a query that repeats the call before it returns
\* the same sequence.
C30_QueriesIndependent ==
    [][/\ Called("route_any") =>
            /\ ret' = RouteResult(PristineRouteAny(call'.fromxy, call'.toxy))
            /\ (call' = call) => (ret' = ret)
       /\ Called("route_with_cycle") =>
            /\ ret' = RouteResult(PristineRouteWithCycle(call'.fromxy))
            /\ (call' = call) => (ret' = ret)
      ]_vars

\* C30 witness: route_any has found a route as the fourth call on a single
\* way while the visited marks and the cycle of an earlier route_with_cycle
\* are still stored.
C30_Witness ==
    /\ RouteAnyFound
    /\ ncalls = 4
    /\ Cardinality(DOMAIN ways_by_id_) = 1
    /\ Len(cyclic_route_) = 2

\* What remove_way(id) leaves when it is called on the primed state, that is
\* right after the step under consideration.
RemovedAfterwards(id) ==
    remove_way_erase(ways_by_id_', ways_by_coord_', visited_coordinates_', id)

\* The containers as they are in the unprimed state
Containers ==
    [ways_by_id_ |-> ways_by_id_,
     ways_by_coord_ |-> ways_by_coord_,
     visited_coordinates_ |-> visited_coordinates_]

\* What a caller can see of three containers: the set of way ids, the
\* ways_from sequence and the incident ways of every coordinate, and the set
\* of coordinates with a crossroad entry.
Observed(s) ==
    [all_ways |-> DOMAIN s.ways_by_id_,
     ways_from |-> [c \in Coords |-> WaysFromIn(s.ways_by_coord_, c)],
     incident |-> [c \in Coords |-> IncidentIn(s.ways_by_id_, c)],
     crossroads |-> DOMAIN s.visited_coordinates_]

\* C31: add_way of an id that is not present succeeds, remove_way of the same
\* id right after it succeeds as well (its get_way test finds the way), and
\* what remove_way leaves is what was there before the add: the same set of
\* way ids, the same ways_from sequence and incident ways at every
\* coordinate, and the same set of coordinates with a crossroad entry;
\* self-loops and ways that touch coordinates already in use are among the
\* ways added.
C31_AddRemoveRoundTrip ==
    [][Called("add_way") =>
         \A i \in 1..Len(WayIdNames) :
            LET id == WayIdNames[i]
            IN  (call'.id = id /\ id \notin DOMAIN ways_by_id_) =>
                  /\ ret' = BoolResult(TRUE)
                  /\ GetWayIn(ways_by_id_', id) # nullptr
                  /\ Observed(RemovedAfterwards(id)) = Observed(Containers)
      ]_vars

\* C31 witness: remove_way has returned true as the third call, right after
\* add_way had added the way it removed (W2 is handed out only while W1 is
\* present, so the calls were add W1, add W2, remove W2), and the way that
\* is left is a self-loop, so that the way removed shared a coordinate with
\* it or lay on a coordinate whose crossroad entry went with it.
C31_Witness ==
    /\ ncalls = 3
    /\ call.op = "remove_way"
    /\ call.id = "W2"
    /\ ret = BoolResult(TRUE)
    /\ DOMAIN ways_by_id_ = {"W1"}
    /\ ways_by_id_["W1"].end1 = ways_by_id_["W1"].end2
    /\ DOMAIN visited_coordinates_ = {ways_by_id_["W1"].end1}
    /\ Len(ways_by_coord_[ways_by_id_["W1"].end1]) = 2

====
